---- MODULE Spec2Model ----
(***************************************************************************)
(* A model of PDFProcessor (src/final.py): fix_pdf, analyze_pdf,           *)
(* generate_text and process.  Rasters are small grids of pixels that are  *)
(* either ink (gray level 0) or paper (gray level 255); lengths reported   *)
(* by the layout service are rationals n/d.  The orientation detector, the *)
(* layout service and the file system are environments: the detector's     *)
(* outcome, the service's result and the fate of each write are chosen in  *)
(* the action that uses them.                                              *)
(***************************************************************************)
EXTENDS Integers, Sequences, FiniteSets, TLC

\* ---------------------------------------------------------------- bounds
MaxPages == 2   \* a source document has 0..MaxPages pages
MaxRecs == 2    \* the service returns at most MaxRecs page records
MaxFigs == 2    \* ... at most MaxFigs figures
MaxParas == 2   \* ... at most MaxParas paragraphs

\* ------------------------------------------------- configuration defaults
dpi == 300
default_pad_px == 20
white_thr == 245

InkGray == 0
PaperGray == 255

VARIABLES
    pc,                \* position in process(): the stage running or about to run
    raised,            \* the exception that left process(), "none" otherwise; pc then
                       \* stays at the stage that raised it
    total_pages,       \* fix_pdf: len(pages)
    pad_px,            \* self.pad_px
    i,                 \* fix_pdf: ordinal of the page of the latest iteration, 0 before
    rendered,          \* fix_pdf: the page of this iteration as rendered
    page,              \* fix_pdf: the page of this iteration after the rotation step
    box,               \* fix_pdf: <<x1, y1, x2, y2>> handed to page.crop, <<>> if none
    osd,               \* fix_pdf: what image_to_osd did on the page of this iteration
    osd_failed,        \* ordinals of the pages whose orientation detection failed
    out_pages,         \* fix_pdf: out_pages
    processed_images,  \* self.processed_images
    svc_pages,         \* analyze_pdf: the page ordinals of result.pages, as returned
    layout,            \* self.layout
    fig_paths_by_idx,  \* self.fig_paths_by_idx
    idx,               \* analyze_pdf: figures handled so far by the loop
    fs,                \* the published paths: path -> "partial" | "complete"
    corrected_doc,     \* the pages of a completed write of corrected_pdf
    output             \* the blocks of a completed write of output_txt

vars == <<pc, raised, total_pages, pad_px, i, rendered, page, box, osd, osd_failed,
          out_pages, processed_images, svc_pages, layout, fig_paths_by_idx, idx, fs,
          corrected_doc, output>>

\* ---------------------------------------------------------------- helpers
Max(a, b) == IF a >= b THEN a ELSE b
Min(a, b) == IF a <= b THEN a ELSE b
SetMax(S) == CHOOSE m \in S : \A n \in S : n <= m
SetMin(S) == CHOOSE m \in S : \A n \in S : m <= n

\* ----------------------------------------------------------------- rasters
\* A raster: its source page ordinal (0 while unassigned), size, and ink pixels.
NoImage == [id |-> 0, W |-> 0, H |-> 0, ink |-> {}]

\* PIL Image.rotate(theta, expand=True) for theta a multiple of 90:
\* counter-clockwise, the canvas takes the rotated size.
Rotate(img, theta) ==
    LET t == theta % 360 IN
    CASE t = 0   -> img
      [] t = 90  -> [img EXCEPT !.W = img.H, !.H = img.W,
                        !.ink = {<<p[2], img.W - 1 - p[1]>> : p \in img.ink}]
      [] t = 180 -> [img EXCEPT
                        !.ink = {<<img.W - 1 - p[1], img.H - 1 - p[2]>> : p \in img.ink}]
      [] t = 270 -> [img EXCEPT !.W = img.H, !.H = img.W,
                        !.ink = {<<img.H - 1 - p[2], p[1]>> : p \in img.ink}]

\* PIL Image.crop((left, upper, right, lower)): right and lower are exclusive.
Crop(img, b) ==
    [img EXCEPT !.W = b[3] - b[1], !.H = b[4] - b[2],
        !.ink = {<<p[1] - b[1], p[2] - b[2]>> :
                    p \in {q \in img.ink : /\ b[1] <= q[1] /\ q[1] < b[3]
                                           /\ b[2] <= q[2] /\ q[2] < b[4]}}]

\* g.mean(axis=1)[y] < white_thr, as sum < white_thr * width
RowSum(img, y) ==
    LET k == Cardinality({p \in img.ink : p[2] = y})
    IN  InkGray * k + PaperGray * (img.W - k)
ColSum(img, x) ==
    LET k == Cardinality({p \in img.ink : p[1] = x})
    IN  InkGray * k + PaperGray * (img.H - k)
r_idx(img) == {y \in 0 .. img.H - 1 : RowSum(img, y) < white_thr * img.W}
c_idx(img) == {x \in 0 .. img.W - 1 : ColSum(img, x) < white_thr * img.H}

\* lines 59-64: the padded, clamped box handed to page.crop
CropBox(img, pad) ==
    LET y1 == SetMin(r_idx(img))
        y2 == SetMax(r_idx(img))
        x1 == SetMin(c_idx(img))
        x2 == SetMax(c_idx(img))
    IN  << Max(x1 - pad, 0), Max(y1 - pad, 0),
           Min(x2 + pad, img.W - 1), Min(y2 + pad, img.H - 1) >>


\* lines 44-51: the rotation step; a TesseractError leaves the page as rendered
Angles == {0, 90, 180, 270}
OsdOutcomes ==
    {[err |-> FALSE, rotate |-> a] : a \in Angles} \cup {[err |-> TRUE, rotate |-> 0]}
Deskew(img, o) ==
    IF o.err THEN img
    ELSE IF o.rotate # 0 THEN Rotate(img, 360 - o.rotate) ELSE img

\* Mutant of Caught: the except clause names another exception class.
Caught_OtherClass(o) == FALSE

\* line 49: the except clause takes the detector's TesseractError
Caught(o) == o.err

\* Mutant of HasContent: r_idx.size > 1 for r_idx.size > 0.
HasContent_TwoRows(img) == Cardinality(r_idx(img)) > 1 /\ c_idx(img) # {}

\* line 58: r_idx.size > 0 and c_idx.size > 0
HasContent(img) == r_idx(img) # {} /\ c_idx(img) # {}

\* lines 58-66: the page saved and appended
Cropped(rot, pad) == IF HasContent(rot) THEN Crop(rot, CropBox(rot, pad)) ELSE rot

\* ------------------------------------------------------- layout arithmetic
\* A length reported in the service's unit is a rational <<n, d>>, d > 0.
RatLess(a, b) == a[1] * b[2] < b[1] * a[2]
RatEq(a, b) == a[1] * b[2] = b[1] * a[2]

\* int(): truncation toward zero of a / b, b > 0
Trunc(a, b) == IF a >= 0 THEN a \div b ELSE -((-a) \div b)

\* coords[0::2] and coords[1::2]
Evens(c) == [k \in 1 .. (Len(c) + 1) \div 2 |-> c[2 * k - 1]]
Odds(c) == [k \in 1 .. Len(c) \div 2 |-> c[2 * k]]
RECURSIVE SeqSum(_)
SeqSum(s) == IF s = <<>> THEN 0 ELSE Head(s) + SeqSum(Tail(s))
SeqMin(s) == SetMin({s[k] : k \in DOMAIN s})
SeqMax(s) == SetMax({s[k] : k \in DOMAIN s})

\* Python list indexing seq[k]: k in -len .. len-1, negative k counts from the end
PyIndexOk(seq, k) == -Len(seq) <= k /\ k <= Len(seq) - 1
PyIndex(seq, k) == IF k >= 0 THEN seq[k + 1] ELSE seq[Len(seq) + k + 1]

\* {p["pageNumber"]: p for p in pages}: a later record replaces an earlier one
ByPageNumber(pages) ==
    [n \in {pages[k].pageNumber : k \in DOMAIN pages} |->
        pages[SetMax({k \in DOMAIN pages : pages[k].pageNumber = n})]]

\* lines 97-105: the record synthesized for a page the service left out
Placeholder(pg, img) ==
    [pageNumber |-> pg, width |-> <<img.W, dpi>>, height |-> <<img.H, dpi>>,
     words |-> <<>>]

\* Mutant of FullPages: range(1, total_pages) leaves the last page out.
FullPages_ShortRange(pages, imgs) ==
    LET existing == ByPageNumber(pages)
    IN  [pg \in 1 .. Len(imgs) - 1 |->
            IF pg \in DOMAIN existing THEN existing[pg]
            ELSE Placeholder(pg, imgs[pg])]

\* lines 90-106: the reconciled page table
FullPages(pages, imgs) ==
    LET existing == ByPageNumber(pages)
    IN  [pg \in 1 .. Len(imgs) |->
            IF pg \in DOMAIN existing THEN existing[pg]
            ELSE Placeholder(pg, imgs[pg])]

\* lines 117-128: the clamped pixel rectangle <<x0, y0, x1, y1>> of a region,
\* int((min(xs) / Wj) * Wp) computed exactly (no floating-point rounding)
FigureRect(region, pages, imgs) ==
    LET pages_meta == ByPageNumber(pages)
        pg == region.pageNumber
        Wj == IF pg \in DOMAIN pages_meta THEN pages_meta[pg].width ELSE <<1, 1>>
        Hj == IF pg \in DOMAIN pages_meta THEN pages_meta[pg].height ELSE <<1, 1>>
        xs == Evens(region.polygon)
        ys == Odds(region.polygon)
        img == PyIndex(imgs, pg - 1)
        x0 == Trunc(SeqMin(xs) * Wj[2] * img.W, Wj[1])
        x1 == Trunc(SeqMax(xs) * Wj[2] * img.W, Wj[1])
        y0 == Trunc(SeqMin(ys) * Hj[2] * img.H, Hj[1])
        y1 == Trunc(SeqMax(ys) * Hj[2] * img.H, Hj[1])
    IN  << Max(0, x0), Max(0, y0), Min(img.W, x1), Min(img.H, y1) >>

\* Mutant of PositiveArea: >= for >.
PositiveArea_OrEqual(r) == r[3] >= r[1] /\ r[4] >= r[2]

\* line 129
PositiveArea(r) == r[3] > r[1] /\ r[4] > r[2]

\* lines 140-146: (page, y_center, x_center) of a region
get_bounding_box_center(region) ==
    LET xs == Evens(region.polygon)
        ys == Odds(region.polygon)
    IN  [page |-> region.pageNumber,
         y_center |-> <<SeqSum(ys), Len(ys)>>,
         x_center |-> <<SeqSum(xs), Len(xs)>>]

\* Mutant of KeyLess: the key is (y_center, page, x_center).
KeyLess_YFirst(e, f) ==
    \/ RatLess(e.y_center, f.y_center)
    \/ /\ RatEq(e.y_center, f.y_center)
       /\ \/ e.page < f.page
          \/ /\ e.page = f.page
             /\ RatLess(e.x_center, f.x_center)

\* line 175: the sort key, compared as Python compares tuples
KeyLess(e, f) ==
    \/ e.page < f.page
    \/ /\ e.page = f.page
       /\ \/ RatLess(e.y_center, f.y_center)
          \/ /\ RatEq(e.y_center, f.y_center)
             /\ RatLess(e.x_center, f.x_center)

\* list.sort(key=...): stable, ascending
RECURSIVE Insert(_, _)
Insert(sorted, e) ==
    IF sorted = <<>> THEN <<e>>
    ELSE IF KeyLess(e, Head(sorted)) THEN <<e>> \o sorted
    ELSE <<Head(sorted)>> \o Insert(Tail(sorted), e)
RECURSIVE SortByKey(_)
SortByKey(s) ==
    IF s = <<>> THEN <<>>
    ELSE Insert(SortByKey(SubSeq(s, 1, Len(s) - 1)), s[Len(s)])

\* lines 151-174: the elements, paragraphs first, then figures
Indices(entries) ==
    SelectSeq([k \in 1 .. Len(entries) |-> k],
              LAMBDA k : entries[k].boundingRegions # <<>>)
ParagraphElement(para, para_idx) ==
    LET c == get_bounding_box_center(para.boundingRegions[1])
    IN  [type |-> "paragraph", index |-> para_idx, page |-> c.page,
         y_center |-> c.y_center, x_center |-> c.x_center,
         content |-> [text |-> para.content, path |-> <<>>]]
FigureElement(fig, fig_idx, paths) ==
    LET c == get_bounding_box_center(fig.boundingRegions[1])
    IN  [type |-> "figure", index |-> fig_idx, page |-> c.page,
         y_center |-> c.y_center, x_center |-> c.x_center,
         content |-> [text |-> "[FIGURE: ]",
                      path |-> IF fig_idx \in DOMAIN paths THEN paths[fig_idx]
                               ELSE <<>>]]
Elements(lay, paths) ==
    LET ps == Indices(lay.paragraphs)
        fg == Indices(lay.figures)
    IN  [k \in 1 .. Len(ps) |-> ParagraphElement(lay.paragraphs[ps[k]], ps[k] - 1)] \o
        [k \in 1 .. Len(fg) |-> FigureElement(lay.figures[fg[k]], fg[k] - 1, paths)]

\* ------------------------------------------------------------------- files
PagePath(n) == <<"page_processed", n, 0>>
PdfPath == <<"corrected_pdf", 0, 0>>
JsonPath == <<"json_path", 0, 0>>
FigPath(pg, k) == <<"figure", pg, k>>
TxtPath == <<"output_txt", 0, 0>>

\* Every artifact is written in place at its published path.  A write either
\* completes, or is cut short (an I/O error, or the run is aborted) after the
\* path was opened for writing.
Written(path, ok) ==
    [p \in DOMAIN fs \cup {path} |->
        IF p = path THEN (IF ok THEN "complete" ELSE "partial") ELSE fs[p]]

\* ------------------------------------------------------------------ inputs
\* Rendered source pages: blank, or one rectangle of ink.
InkRect(x0, y0, x1, y1) == (x0 .. x1) \X (y0 .. y1)
SourceSizes == {<<2, 3>>}     \* <<width, height>> in pixels
Blank(sz) == [id |-> 0, W |-> sz[1], H |-> sz[2], ink |-> {}]
\* A page one pixel wide and 26 tall with a single ink pixel: its row is
\* content-bearing (mean 0), its column is not (mean 255 * 25 / 26 >= 245).
FaintColumn == [id |-> 0, W |-> 1, H |-> 26, ink |-> {<<0, 12>>}]
SourceImages ==
    {Blank(sz) : sz \in SourceSizes} \cup {FaintColumn} \cup
    UNION {{[id |-> 0, W |-> sz[1], H |-> sz[2], ink |-> InkRect(b[1], b[2], b[3], b[4])] :
             b \in {c \in (0 .. sz[1] - 1) \X (0 .. sz[2] - 1) \X
                            (0 .. sz[1] - 1) \X (0 .. sz[2] - 1) :
                        c[1] <= c[3] /\ c[2] <= c[4]}} : sz \in SourceSizes}
PadChoices == {0, 1, default_pad_px}

\* What the layout service may return.
SeqsUpTo(S, n) == UNION {[1 .. k -> S] : k \in 0 .. n}
SvcDims == {<<2, 3>>, <<4, 6>>}   \* a page's <<width, height>> in the service's unit
PageRec(n, dim) ==
    [pageNumber |-> n, width |-> <<dim[1], 1>>, height |-> <<dim[2], 1>>,
     words |-> <<"w">>]
PageRecs == {PageRec(n, dim) : n \in 1 .. MaxPages + 1, dim \in SvcDims}
BoxPolygon(x0, y0, x1, y1) == <<x0, y0, x1, y0, x1, y1, x0, y1>>
Region(pg, polygon) == [pageNumber |-> pg, polygon |-> polygon]
NoRegionFigure == [boundingRegions |-> <<>>]
Figure(pg, polygon) == [boundingRegions |-> <<Region(pg, polygon)>>]
NoRegionParagraph == [content |-> "meta", boundingRegions |-> <<>>]
Paragraph(pg, polygon) == [content |-> "text", boundingRegions |-> <<Region(pg, polygon)>>]
FigPolygons ==
    {BoxPolygon(0, 0, 1, 1), BoxPolygon(1, 1, 1, 2), BoxPolygon(0, 1, 3, 3)}
FigChoices ==
    {NoRegionFigure} \cup
    {Figure(pg, poly) : pg \in 0 .. MaxPages + 1, poly \in FigPolygons}
ParaPolygons ==
    {BoxPolygon(0, 1, 2, 1), BoxPolygon(1, 2, 2, 2), <<0, 1, 2, 1, 1, 4>>}
ParaChoices ==
    {NoRegionParagraph} \cup
    {Paragraph(pg, poly) : pg \in 1 .. MaxPages, poly \in ParaPolygons}

BasicRecLists == {<<>>, <<PageRec(1, <<2, 3>>)>>}
BasicFigLists == {<<>>, <<Figure(1, BoxPolygon(0, 0, 1, 1))>>, <<NoRegionFigure>>,
                  <<Figure(MaxPages + 1, BoxPolygon(0, 0, 1, 1))>>}
BasicParaLists == {<<Paragraph(1, BoxPolygon(0, 1, 2, 1))>>}
Results(Recs, Paras, Figs) ==
    {[pages |-> r, paragraphs |-> p, figures |-> f] : r \in Recs, p \in Paras, f \in Figs}
PageResults == Results(SeqsUpTo(PageRecs, MaxRecs), BasicParaLists, BasicFigLists)
FigureResults == Results(BasicRecLists, BasicParaLists, SeqsUpTo(FigChoices, MaxFigs))
TextRecLists == {[pg \in 1 .. MaxPages |-> PageRec(pg, <<4, 6>>)]}
TextFigChoices == {Figure(1, BoxPolygon(0, 4, 2, 6)), Figure(2, <<0, 1, 2, 1, 1, 4>>)}
TextResults ==
    Results(TextRecLists, SeqsUpTo(ParaChoices, MaxParas), SeqsUpTo(TextFigChoices, MaxFigs))
BasicImages == {Blank(sz) : sz \in SourceSizes}

\* -------------------------------------------------------------------- Init
InitWith(Pads) ==
    /\ pc = "fix_pdf"
    /\ raised = "none"
    /\ total_pages \in 0 .. MaxPages
    /\ pad_px \in Pads
    /\ i = 0
    /\ rendered = NoImage
    /\ page = NoImage
    /\ box = <<>>
    /\ osd = [err |-> FALSE, rotate |-> 0]
    /\ osd_failed = {}
    /\ out_pages = <<>>
    /\ processed_images = <<>>
    /\ svc_pages = <<>>
    /\ layout = [pages |-> <<>>, paragraphs |-> <<>>, figures |-> <<>>]
    /\ fig_paths_by_idx = <<>>
    /\ idx = 0
    /\ fs = <<>>
    /\ corrected_doc = <<>>
    /\ output = <<>>

\* ----------------------------------------------------------------- fix_pdf
\* lines 41-71: one iteration of the page loop
FixPage(Imgs, Osds) ==
    /\ pc = "fix_pdf"
    /\ raised = "none"
    /\ i < total_pages
    /\ \E src \in Imgs, o \in Osds, saved \in BOOLEAN :
        LET ren == [src EXCEPT !.id = i + 1]
            rot == Deskew(ren, o)
        IN  /\ i' = i + 1
            /\ rendered' = ren
            /\ osd' = o
            /\ osd_failed' = IF o.err THEN osd_failed \cup {i + 1} ELSE osd_failed
            /\ IF o.err /\ ~Caught(o)
               THEN /\ raised' = "TesseractError"
                    /\ page' = ren
                    /\ UNCHANGED <<box, fs, out_pages>>
               ELSE /\ page' = rot
                    /\ box' = IF HasContent(rot) THEN CropBox(rot, pad_px) ELSE <<>>
                    /\ fs' = Written(PagePath(i + 1), saved)
                    /\ IF saved
                       THEN /\ out_pages' = Append(out_pages, Cropped(rot, pad_px))
                            /\ UNCHANGED raised
                       ELSE /\ raised' = "OSError"
                            /\ UNCHANGED out_pages
    /\ UNCHANGED <<pc, total_pages, pad_px, processed_images, svc_pages, layout,
                   fig_paths_by_idx, idx, corrected_doc, output>>

\* Mutant of SavedDocument: append_images=out_pages[2:].
SavedDocument_SkipSecond(out) == <<out[1]>> \o SubSeq(out, 3, Len(out))

\* line 73: out_pages[0].save(..., save_all=True, append_images=out_pages[1:])
SavedDocument(out) == <<out[1]>> \o SubSeq(out, 2, Len(out))

\* lines 72-76: assemble the corrected document and return to process()
FixAssemble ==
    /\ pc = "fix_pdf"
    /\ raised = "none"
    /\ i = total_pages
    /\ \E saved \in BOOLEAN :
        IF out_pages = <<>>
        THEN /\ processed_images' = out_pages
             /\ pc' = "analyze_pdf"
             /\ UNCHANGED <<raised, fs, corrected_doc>>
        ELSE /\ fs' = Written(PdfPath, saved)
             /\ IF saved
                THEN /\ corrected_doc' = SavedDocument(out_pages)
                     /\ processed_images' = out_pages
                     /\ pc' = "analyze_pdf"
                     /\ UNCHANGED raised
                ELSE /\ raised' = "OSError"
                     /\ UNCHANGED <<pc, corrected_doc, processed_images>>
    /\ UNCHANGED <<total_pages, pad_px, i, rendered, page, box, osd, osd_failed,
                   out_pages, svc_pages, layout, fig_paths_by_idx, idx, output>>

\* --------------------------------------------------------------- analyze_pdf
\* Mutant of ServiceFailure: the snapshot file is opened before the call.
ServiceFailure_SnapshotFirst ==
    /\ raised' = "HttpResponseError"
    /\ fs' = Written(JsonPath, TRUE)
    /\ UNCHANGED <<pc, svc_pages, layout, idx>>

\* lines 83-88: begin_analyze_document or poller.result raises
ServiceFailure ==
    /\ raised' = "HttpResponseError"
    /\ UNCHANGED <<pc, svc_pages, layout, fs, idx>>

\* lines 80-110: read the corrected document, call the service, reconcile the
\* page records, write the snapshot
AnalyzeCall(Res) ==
    /\ pc = "analyze_pdf"
    /\ raised = "none"
    /\ \/ /\ PdfPath \notin DOMAIN fs
          /\ raised' = "FileNotFoundError"
          /\ UNCHANGED <<pc, svc_pages, layout, fs, idx>>
       \/ /\ PdfPath \in DOMAIN fs
          /\ ServiceFailure
       \/ /\ PdfPath \in DOMAIN fs
          /\ \E result \in Res, dumped \in BOOLEAN :
              /\ svc_pages' = [k \in DOMAIN result.pages |-> result.pages[k].pageNumber]
              /\ fs' = Written(JsonPath, dumped)
              /\ IF dumped
                 THEN /\ layout' = [result EXCEPT
                                      !.pages = FullPages(result.pages, processed_images)]
                      /\ pc' = "extract_figures"
                      /\ idx' = 0
                      /\ UNCHANGED raised
                 ELSE /\ raised' = "OSError"
                      /\ UNCHANGED <<pc, layout, idx>>
    /\ UNCHANGED <<total_pages, pad_px, i, rendered, page, box, osd, osd_failed,
                   out_pages, processed_images, fig_paths_by_idx, corrected_doc, output>>

\* lines 114-134: one iteration of the figure loop; idx counts the figures done
ExtractFigure ==
    /\ pc = "extract_figures"
    /\ raised = "none"
    /\ idx < Len(layout.figures)
    /\ LET fig == layout.figures[idx + 1]
           region == fig.boundingRegions[1]
           pg == region.pageNumber
           rect == FigureRect(region, layout.pages, processed_images)
       IN  \/ /\ \/ fig.boundingRegions = <<>>
                 \/ /\ fig.boundingRegions # <<>>
                    /\ ~PyIndexOk(processed_images, pg - 1)
              /\ raised' = "IndexError"
              /\ UNCHANGED <<idx, fs, fig_paths_by_idx>>
           \/ /\ fig.boundingRegions # <<>>
              /\ PyIndexOk(processed_images, pg - 1)
              /\ ~PositiveArea(rect)
              /\ idx' = idx + 1
              /\ UNCHANGED <<raised, fs, fig_paths_by_idx>>
           \/ /\ fig.boundingRegions # <<>>
              /\ PyIndexOk(processed_images, pg - 1)
              /\ PositiveArea(rect)
              /\ \E saved \in BOOLEAN :
                  /\ fs' = Written(FigPath(pg, idx), saved)
                  /\ IF saved
                     THEN /\ fig_paths_by_idx' =
                                [k \in DOMAIN fig_paths_by_idx \cup {idx} |->
                                    IF k = idx THEN FigPath(pg, idx)
                                    ELSE fig_paths_by_idx[k]]
                          /\ idx' = idx + 1
                          /\ UNCHANGED raised
                     ELSE /\ raised' = "OSError"
                          /\ UNCHANGED <<idx, fig_paths_by_idx>>
    /\ UNCHANGED <<pc, total_pages, pad_px, i, rendered, page, box, osd, osd_failed,
                   out_pages, processed_images, svc_pages, layout, corrected_doc, output>>

\* lines 135-136: the figure loop is over, analyze_pdf returns to process()
AnalyzeReturn ==
    /\ pc = "extract_figures"
    /\ raised = "none"
    /\ idx = Len(layout.figures)
    /\ pc' = "generate_text"
    /\ UNCHANGED <<raised, total_pages, pad_px, i, rendered, page, box, osd, osd_failed,
                   out_pages, processed_images, svc_pages, layout, fig_paths_by_idx,
                   idx, fs, corrected_doc, output>>

\* ------------------------------------------------------------- generate_text
\* lines 147-180, and process() lines 189-190
GenerateText ==
    /\ pc = "generate_text"
    /\ raised = "none"
    /\ LET elements == SortByKey(Elements(layout, fig_paths_by_idx))
       IN  \E written \in BOOLEAN :
            /\ fs' = Written(TxtPath, written)
            /\ IF written
               THEN /\ output' = elements
                    /\ pc' = "done"
                    /\ UNCHANGED raised
               ELSE /\ raised' = "OSError"
                    /\ UNCHANGED <<pc, output>>
    /\ UNCHANGED <<total_pages, pad_px, i, rendered, page, box, osd, osd_failed,
                   out_pages, processed_images, svc_pages, layout, fig_paths_by_idx,
                   idx, corrected_doc>>

\* ------------------------------------------------------------------ process
\* lines 182-190: the stages in sequence; an exception leaves process()
NextWith(Imgs, Osds, Res) ==
    \/ FixPage(Imgs, Osds)
    \/ FixAssemble
    \/ AnalyzeCall(Res)
    \/ ExtractFigure
    \/ AnalyzeReturn
    \/ GenerateText

DefaultPad == {default_pad_px}
NoRotation == {[err |-> FALSE, rotate |-> 0]}
UprightOrQuarter == {[err |-> FALSE, rotate |-> a] : a \in {0, 90}}

\* The whole run, over every page table the service may return.
Spec == InitWith(DefaultPad) /\ [][NextWith(BasicImages, OsdOutcomes, PageResults)]_vars
\* The whole run, over the figure lists the service may return, on pages that
\* come out upright or turned by a quarter.
SpecFigures ==
    InitWith(DefaultPad) /\ [][NextWith(BasicImages, UprightOrQuarter, FigureResults)]_vars
\* The whole run, over the paragraph and figure lists the service may return.
SpecText ==
    InitWith(DefaultPad) /\ [][NextWith(BasicImages, NoRotation, TextResults)]_vars
\* fix_pdf alone, over every source page, detector outcome and padding.
NextFix == FixPage(SourceImages, OsdOutcomes) \/ FixAssemble
SpecFix == InitWith(PadChoices) /\ [][NextFix]_vars

\* =================================================================== claims
Reconciled == pc \in {"extract_figures", "generate_text", "done"}
Analyzed == pc \in {"generate_text", "done"}
HasRegion(entry) == entry.boundingRegions # <<>>

\* C1: once analyze_pdf has reconciled the service result, layout["pages"] holds
\* the page ordinals 1, 2, ..., N in that order, N = len(processed_images),
\* whatever page records the service returned.
C1_PageTableComplete ==
    Reconciled =>
        /\ Len(layout.pages) = Len(processed_images)
        /\ \A k \in 1 .. Len(layout.pages) : layout.pages[k].pageNumber = k
\* The service returned the same ordinal twice, an ordinal beyond N, and no
\* record for page 1 of a document of at least two pages.
C1_Witness ==
    /\ Reconciled
    /\ Len(processed_images) >= 2
    /\ \E j, k \in DOMAIN svc_pages :
          j # k /\ svc_pages[j] = svc_pages[k] /\ svc_pages[j] > Len(processed_images)
    /\ layout.pages[1].words = <<>>

\* The key of a written block, taken from the layout entry it came from: page
\* ordinal, and the sums of the y and x values of the first region's n points.
C2_Entry(e) ==
    IF e.type = "paragraph" THEN layout.paragraphs[e.index + 1]
    ELSE layout.figures[e.index + 1]
C2_Key(e) ==
    LET region == C2_Entry(e).boundingRegions[1]
        n == Len(region.polygon) \div 2
    IN  [page |-> region.pageNumber,
         ysum |-> SeqSum([k \in 1 .. n |-> region.polygon[2 * k]]),
         xsum |-> SeqSum([k \in 1 .. n |-> region.polygon[2 * k - 1]]),
         n |-> n]
C2_Leq(a, b) ==
    \/ a.page < b.page
    \/ /\ a.page = b.page
       /\ \/ a.ysum * b.n < b.ysum * a.n
          \/ /\ a.ysum * b.n = b.ysum * a.n
             /\ a.xsum * b.n <= b.xsum * a.n
\* C2: the blocks generate_text writes are in non-decreasing order of
\* (page ordinal, vertical center, horizontal center), paragraphs and figures
\* merged into one sequence, one block per entry that has a bounding region.
C2_OutputSorted ==
    /\ \A k \in 1 .. Len(output) - 1 : C2_Leq(C2_Key(output[k]), C2_Key(output[k + 1]))
    /\ pc = "done" =>
        /\ \A k \in DOMAIN layout.paragraphs :
              HasRegion(layout.paragraphs[k]) =>
                  \E j \in DOMAIN output :
                      output[j].type = "paragraph" /\ output[j].index = k - 1
        /\ \A k \in DOMAIN layout.figures :
              HasRegion(layout.figures[k]) =>
                  \E j \in DOMAIN output :
                      output[j].type = "figure" /\ output[j].index = k - 1
        /\ Len(output) =
              Cardinality({k \in DOMAIN layout.paragraphs : HasRegion(layout.paragraphs[k])})
              + Cardinality({k \in DOMAIN layout.figures : HasRegion(layout.figures[k])})
\* A page-1 paragraph, a page-1 figure below it and a page-2 paragraph that lies
\* higher on its page than the figure does on page 1 were written in that order.
C2_Witness ==
    /\ pc = "done"
    /\ Len(output) = 3
    /\ output[1].type = "paragraph" /\ output[1].page = 1
    /\ output[2].type = "figure" /\ output[2].page = 1
    /\ output[3].type = "paragraph" /\ output[3].page = 2
    /\ RatLess(output[1].y_center, output[2].y_center)
    /\ RatLess(output[3].y_center, output[2].y_center)

\* Figure k (0-based list position) has been through the figure loop; its
\* clamped pixel rectangle.
C3_Handled(k) == Analyzed \/ (pc = "extract_figures" /\ k < idx)
C3_Rect(k) ==
    FigureRect(layout.figures[k + 1].boundingRegions[1], layout.pages, processed_images)
\* C3: every figure the loop has handled has a key in fig_paths_by_idx and a
\* complete crop file exactly when its clamped pixel rectangle has x1 > x0 and
\* y1 > y0; a rectangle of no area leaves no key and no file, and is never what
\* the loop raises on.
C3_FigureArtifacts ==
    /\ \A k \in 0 .. Len(layout.figures) - 1 :
          C3_Handled(k) =>
              LET r == C3_Rect(k)
                  path == FigPath(layout.figures[k + 1].boundingRegions[1].pageNumber, k)
              IN  IF r[3] > r[1] /\ r[4] > r[2]
                  THEN /\ k \in DOMAIN fig_paths_by_idx
                       /\ fig_paths_by_idx[k] = path
                       /\ path \in DOMAIN fs
                       /\ fs[path] = "complete"
                  ELSE /\ k \notin DOMAIN fig_paths_by_idx
                       /\ \A q \in DOMAIN fs : ~(q[1] = "figure" /\ q[3] = k)
    /\ (pc = "extract_figures" /\ raised # "none") =>
          \/ ~HasRegion(layout.figures[idx + 1])
          \/ ~PyIndexOk(processed_images,
                        layout.figures[idx + 1].boundingRegions[1].pageNumber - 1)
          \/ LET r == C3_Rect(idx) IN r[3] > r[1] /\ r[4] > r[2]
\* analyze_pdf returned after a figure of zero width and positive height was
\* dropped and the figure after it was cropped.
C3_Witness ==
    /\ pc = "generate_text"
    /\ Len(layout.figures) = 2
    /\ C3_Rect(0)[1] = C3_Rect(0)[3]
    /\ C3_Rect(0)[4] > C3_Rect(0)[2]
    /\ 0 \notin DOMAIN fig_paths_by_idx
    /\ 1 \in DOMAIN fig_paths_by_idx

\* C4: on a source document of zero pages fix_pdf signals an error: it does
\* not return normally, and no later stage is started.
C4_ZeroPagesSignalled == total_pages = 0 => pc = "fix_pdf"

\* C5: when fix_pdf returns on a document of N >= 1 pages, processed_images and
\* the corrected document hold exactly N pages, the k-th derived from the k-th
\* source page.
C5_PagesPreserved ==
    (pc = "analyze_pdf" /\ total_pages >= 1) =>
        /\ Len(processed_images) = total_pages
        /\ Len(corrected_doc) = total_pages
        /\ \A k \in 1 .. total_pages :
              processed_images[k].id = k /\ corrected_doc[k].id = k
\* fix_pdf returned on a document of at least two pages whose first page failed
\* orientation detection and whose first two pages came out in different sizes.
C5_Witness ==
    /\ pc = "analyze_pdf"
    /\ total_pages >= 2
    /\ 1 \in osd_failed
    /\ processed_images[1].W # processed_images[2].W

\* C6: the rectangle fix_pdf crops lies within the page and contains every row
\* from the first to the last content-bearing row and every column from the
\* first to the last content-bearing column.
C6_CropCoversContent ==
    box # <<>> =>
        /\ 0 <= box[1] /\ box[1] <= box[3] /\ box[3] <= page.W
        /\ 0 <= box[2] /\ box[2] <= box[4] /\ box[4] <= page.H
        /\ \A y \in SetMin(r_idx(page)) .. SetMax(r_idx(page)) : box[2] <= y /\ y < box[4]
        /\ \A x \in SetMin(c_idx(page)) .. SetMax(c_idx(page)) : box[1] <= x /\ x < box[3]

\* C7: an entry the service returns with no bounding region is left out of the
\* text artifact and raises no error anywhere in the run.
C7_NoRegionNoError ==
    /\ \A j \in DOMAIN output : HasRegion(C2_Entry(output[j]))
    /\ ~ /\ pc = "extract_figures"
         /\ raised # "none"
         /\ ~HasRegion(layout.figures[idx + 1])

\* C8: when the layout-analysis call fails the exception leaves process() from
\* analyze_pdf: no snapshot, figure or text file exists, fig_paths_by_idx and
\* layout are as constructed, and generate_text was never started.
C8_ServiceFailureAborts ==
    raised = "HttpResponseError" =>
        /\ pc = "analyze_pdf"
        /\ JsonPath \notin DOMAIN fs
        /\ TxtPath \notin DOMAIN fs
        /\ \A q \in DOMAIN fs : q[1] # "figure"
        /\ fig_paths_by_idx = <<>>
        /\ layout = [pages |-> <<>>, paragraphs |-> <<>>, figures |-> <<>>]
        /\ output = <<>>
\* The service call failed on a corrected document of at least one page.
C8_Witness ==
    /\ raised = "HttpResponseError"
    /\ Len(processed_images) >= 1
    /\ fs[PdfPath] = "complete"

\* C9: no published path ever holds a partially written artifact.
C9_NoPartialArtifact == \A q \in DOMAIN fs : fs[q] = "complete"

\* C10: a page whose orientation detection fails is handled unrotated, and is
\* still cropped, saved and appended; the pages after it are still handled, and
\* no detector failure leaves process().
C10_DetectorFailureRecoverable ==
    /\ raised # "TesseractError"
    /\ (i >= 1 /\ osd.err) =>
          /\ page = rendered
          /\ (box # <<>>) = (r_idx(rendered) # {} /\ c_idx(rendered) # {})
          /\ (raised = "none") =>
                /\ fs[PagePath(i)] = "complete"
                /\ out_pages[i].id = i
                /\ out_pages[i].W = (IF box = <<>> THEN rendered.W ELSE box[3] - box[1])
                /\ out_pages[i].H = (IF box = <<>> THEN rendered.H ELSE box[4] - box[2])
    /\ \A k \in osd_failed :
          (k < i \/ raised = "none") => (k <= Len(out_pages) /\ out_pages[k].id = k)
    /\ pc = "analyze_pdf" => Len(processed_images) = total_pages
\* fix_pdf returned on a document of at least two pages, the first of which
\* failed orientation detection.
C10_Witness ==
    /\ pc = "analyze_pdf"
    /\ total_pages >= 2
    /\ 1 \in osd_failed
    /\ Len(processed_images) = total_pages

\* C11: every per-page lookup of the figure loop is in bounds: a figure whose
\* first region names page pg is handled with 1 <= pg <= N, N =
\* len(processed_images), so that processed_images[pg - 1] is the raster of page
\* pg itself, and the loop never raises an index error on a figure that has a
\* region.
C11_LookupsInBounds ==
    /\ \A k \in 0 .. Len(layout.figures) - 1 :
          (C3_Handled(k) /\ HasRegion(layout.figures[k + 1])) =>
              LET pg == layout.figures[k + 1].boundingRegions[1].pageNumber
              IN  1 <= pg /\ pg <= Len(processed_images)
    /\ ~ /\ pc = "extract_figures"
         /\ raised = "IndexError"
         /\ HasRegion(layout.figures[idx + 1])

\* C12: every figure block generate_text writes carries the path recorded in
\* fig_paths_by_idx for that figure's list position, which is the crop file
\* figure_<page>_<index>.png analyze_pdf wrote for it; no block carries an empty
\* path, and two figure blocks never carry the same path.
C12_MarkerCarriesPath ==
    /\ \A j \in DOMAIN output :
          output[j].type = "figure" =>
              LET k == output[j].index
                  pg == layout.figures[k + 1].boundingRegions[1].pageNumber
              IN  /\ output[j].content.path # <<>>
                  /\ k \in DOMAIN fig_paths_by_idx
                  /\ output[j].content.path = fig_paths_by_idx[k]
                  /\ output[j].content.path = <<"figure", pg, k>>
                  /\ output[j].content.path \in DOMAIN fs
    /\ \A j, m \in DOMAIN output :
          (output[j].type = "figure" /\ output[m].type = "figure" /\ j # m) =>
              output[j].content.path # output[m].content.path

\* C13: a page is cropped exactly when it has a content-bearing row and a
\* content-bearing column after the rotation step; a page with no such row or
\* no such column raises nothing in fix_pdf and is saved and appended as it
\* left the rotation step, in its full dimensions.
C13_BlankPageKept ==
    i >= 1 =>
        LET rows == {y \in 0 .. page.H - 1 : RowSum(page, y) < white_thr * page.W}
            cols == {x \in 0 .. page.W - 1 : ColSum(page, x) < white_thr * page.H}
        IN  /\ (box # <<>>) = (rows # {} /\ cols # {})
            /\ (rows = {} \/ cols = {}) =>
                  /\ raised \in {"none", "OSError"}
                  /\ PagePath(i) \in DOMAIN fs
                  /\ raised = "none" =>
                        /\ fs[PagePath(i)] = "complete"
                        /\ out_pages[i] = page
            /\ (raised = "none" /\ out_pages[i] # page) => (rows # {} /\ cols # {})
\* fix_pdf returned on a document whose first page is blank and whose second
\* page has a content-bearing row (after a quarter turn: column) and no
\* content-bearing column (row); both are in processed_images uncropped.
C13_Witness ==
    /\ pc = "analyze_pdf"
    /\ total_pages >= 2
    /\ processed_images[1].ink = {} /\ processed_images[1].H = 3
    /\ processed_images[2].ink # {}
    /\ processed_images[2].W * processed_images[2].H = 26
    /\ r_idx(processed_images[2]) = {} \/ c_idx(processed_images[2]) = {}
====
